---- MODULE Spec2Model ----
(***************************************************************************)
(* Model of moabb/analysis/results.py: the Results class, which keeps the  *)
(* evaluation results of pipelines in one HDF5 file.                       *)
(*                                                                         *)
(* The file is a two-level hierarchy: root -> one group per pipeline       *)
(* digest (attributes name, repr) -> one subgroup per dataset code         *)
(* (attributes n_subj, n_sessions, channels, columns) holding the two      *)
(* resizable arrays 'id' (variable-length strings) and 'data' (N x 3,      *)
(* single precision).                                                      *)
(*                                                                         *)
(* Every method opens the file, works on it and closes it; one action of   *)
(* the model is one whole method call.  The variable last records the      *)
(* call that was made, with its arguments and its outcome, and handles     *)
(* counts the handles on the file that are open.                           *)
(***************************************************************************)
EXTENDS Integers, Sequences, FiniteSets, TLC

VARIABLES file, last, handles

vars == <<file, last, handles>>

(***************************************************************************)
(* Bounds of the model.                                                    *)
(***************************************************************************)
\* most rows the whole file may hold
MaxRows == 2
\* longest list of records given for one pipeline name
MaxList == 2

(***************************************************************************)
(* Python values.                                                          *)
(***************************************************************************)
\* an int and a str object, as given for a record's id or a subject
PyInt(n) == [t |-> "int", i |-> n, s |-> ""]
PyStr(x) == [t |-> "str", i |-> 0, s |-> x]

Digits == <<"0", "1", "2", "3", "4", "5", "6", "7", "8", "9">>

RECURSIVE Decimal(_)
Decimal(n) == IF n < 10 THEN Digits[n + 1]
              ELSE Decimal(n \div 10) \o Digits[(n % 10) + 1]

\* str(x): the decimal digits of an int, a str unchanged
Str(x) == IF x.t = "str" THEN x.s
          ELSE IF x.i < 0 THEN "-" \o Decimal(0 - x.i) ELSE Decimal(x.i)

\* the value of 2^24: below it every integer is a single-precision float
TwoPow24 == 16777216

RECURSIVE Ulp(_)
Ulp(x) == IF x < TwoPow24 THEN 1 ELSE 2 * Ulp(x \div 2)

\* the value read back from the 'data' array (dtype '=f4') after a
\* non-negative integer was written to it: round to nearest, ties to even
Float32(x) ==
    LET u == Ulp(x)
        q == x \div u
        r == x % u
    IN  IF 2 * r < u THEN q * u
        ELSE IF 2 * r > u THEN (q + 1) * u
        ELSE IF q % 2 = 0 THEN q * u ELSE (q + 1) * u

(***************************************************************************)
(* Pipelines and get_digest.                                               *)
(***************************************************************************)
\* pipeline objects: oid tells two objects apart, repr is repr(obj)
Pipelines == { [oid |-> 1, repr |-> "CSP+LDA"],
               [oid |-> 2, repr |-> "CSP+LDA"],
               [oid |-> 3, repr |-> "MDM"] }

Reprs == { p.repr : p \in Pipelines }

\* hashlib.md5(s.encode('utf8')).hexdigest() on the strings of Reprs
Md5Hex(s) == CASE s = "CSP+LDA" -> "dc381cc5e8327081398ec126e8f30a20"
               [] s = "MDM"     -> "1044ebd2843c1a9c4b9900135e706ba8"

\* a digest of the object's identity: two objects, two digests
DigestOfIdentity(obj) ==
    IF obj.oid = 2 THEN "6d0b29f2d6dc8a0e7e7d9b8d3f1d2c11" ELSE Md5Hex(obj.repr)

get_digest(obj) == Md5Hex(obj.repr)

Digests == { Md5Hex(r) : r \in Reprs }

\* the order in which h5py lists the members of the root group (by name)
DigestOrder == << "1044ebd2843c1a9c4b9900135e706ba8",
                  "dc381cc5e8327081398ec126e8f30a20" >>

(***************************************************************************)
(* Datasets and records.                                                   *)
(***************************************************************************)
\* dataset objects: code, len(subject_list), n_sessions; two of them share
\* a code, and none has the code "name"
Datasets == { [code |-> "D1", n_subj |-> 5, n_sessions |-> 2],
              [code |-> "D1", n_subj |-> 3, n_sessions |-> 1],
              [code |-> "D2", n_subj |-> 5, n_sessions |-> 2] }

DatasetCodes == { d.code : d \in Datasets }

\* the order in which h5py lists the members of a pipeline group (by name)
CodeOrder == << "D1", "D2" >>

\* the subjects asked for: 1 and "1" have the same str()
Subjects == { PyInt(1), PyStr("1"), PyInt(2) }

\* the ids records carry
RecordIds == { PyInt(1), PyStr("2") }

\* a result record (a Python dict) with all its keys
Record(ds, i, score, time, n_samples, n_channels) ==
    [dataset |-> ds, id |-> i, score |-> score, time |-> time,
     n_samples |-> n_samples, n_channels |-> n_channels]

\* the records of the evaluations: those of id 1 measured on 100 samples
\* and 32 channels, the others on 2^24 + 1 samples (the smallest count that
\* single precision cannot hold) and 16 channels
FullRecords ==
    { IF i = PyInt(1) THEN Record(ds, i, 1, 2, 100, 32)
                      ELSE Record(ds, i, 0, 3, 16777217, 16) :
      ds \in Datasets, i \in RecordIds }

\* the dict d without the key k
Without(d, k) == [x \in (DOMAIN d) \ {k} |-> d[x]]

BaseRecord == Record([code |-> "D1", n_subj |-> 5, n_sessions |-> 2],
                     PyInt(1), 1, 2, 100, 32)

OtherRecord == Record([code |-> "D2", n_subj |-> 5, n_sessions |-> 2],
                      PyStr("2"), 0, 3, 16777217, 16)

\* records that lack one of the keys add reads
PartialRecords == { Without(OtherRecord, k) : k \in {"id", "score"} }

Records == FullRecords \cup PartialRecords

\* the records that lists are made of
ListRecords == { BaseRecord, OtherRecord }

RECURSIVE SeqsUpTo(_, _)
SeqsUpTo(S, n) ==
    IF n = 0 THEN { <<>> }
    ELSE LET shorter == SeqsUpTo(S, n - 1)
         IN  shorter \cup { Append(q, x) : q \in shorter, x \in S }

\* the payload given for one pipeline name: a dict (items holds it), a list
\* of dicts, or an object of another type (here a tuple of dicts)
PyDict(d)  == [type |-> "dict", items |-> <<d>>]
PyList(l)  == [type |-> "list", items |-> l]
PyTuple(l) == [type |-> "tuple", items |-> l]

Payloads == { PyDict(d) : d \in Records }
            \cup { PyList(l) : l \in SeqsUpTo(ListRecords, MaxList) }
            \cup { PyTuple(<<BaseRecord>>) }

\* the payloads of the calls that name two pipelines
SmallPayloads == { PyDict(BaseRecord), PyTuple(<<BaseRecord>>) }

Names == { "P1", "P2" }

(***************************************************************************)
(* The HDF5 file.                                                          *)
(*   file[digest]              a pipeline group                            *)
(*   file[digest].attrs        its attributes  (name, repr)                *)
(*   file[digest].members[c]   the dataset subgroup of code c              *)
(*       .attrs                its attributes, a function of those set     *)
(*       .id, .data            the two arrays                              *)
(***************************************************************************)
\* a group, or a dict, without entries
Empty == [x \in {} |-> 0]

EmptyFile == Empty

\* the function g with key k set to v, k added when it is not in g
Put(g, k, v) == [x \in (DOMAIN g) \cup {k} |-> IF x = k THEN v ELSE g[x]]

Columns == << "score", "time", "samples" >>

\* the sum of the numbers n[x], x in S
RECURSIVE SumOver(_, _)
SumOver(S, n) ==
    IF S = {} THEN 0
    ELSE LET x == CHOOSE y \in S : TRUE
         IN  n[x] + SumOver(S \ {x}, n)

\* number of entries of all 'id' arrays of a pipeline group, and of the file
GroupRows(grp) ==
    SumOver(DOMAIN grp.members,
            [c \in DOMAIN grp.members |-> Len(grp.members[c].id)])

TotalRows(f) == SumOver(DOMAIN f, [g \in DOMAIN f |-> GroupRows(f[g])])

(***************************************************************************)
(* with h5py.File(self.filepath, mode) as f: ...                           *)
(***************************************************************************)
\* a handle that the last statement of the body closes: a body that raises
\* leaves it open
WithFileClosedAtEnd(open, status) ==
    IF status = "ok" THEN (open + 1) - 1 ELSE open + 1

\* the handles open after a with block, of which open were open before:
\* the block opens one and closes it as it is left, by its end, by a
\* return or by the exception status
WithFile(open, status) == (open + 1) - 1

\* a file opened in mode 'w', which empties it
TruncatedFile(f) == Empty

\* the file after a with block that opened it in mode 'r'
ReadOnly(f) == f

(***************************************************************************)
(* Results.add                                                             *)
(***************************************************************************)
\* a to_list that takes whatever is not a dict for a list
ToListUnchecked(res) == [status |-> "ok", dlist |-> res.items]

\* to_list(res): the list of records of a payload, or the ValueError
to_list(res) ==
    IF res.type = "dict" THEN [status |-> "ok", dlist |-> res.items]
    ELSE IF res.type # "list" THEN [status |-> "ValueError", dlist |-> <<>>]
    ELSE [status |-> "ok", dlist |-> res.items]

\* dset['id'].resize(length, 0): the array cut or filled up to length
\* entries, the new ones holding the fill value
ResizeId(dset, length) ==
    [dset EXCEPT !.id = [i \in 1..length |-> IF i <= Len(@) THEN @[i] ELSE ""]]

\* dset['data'].resize(length, 0)
ResizeData(dset, length) ==
    [dset EXCEPT !.data = [i \in 1..length |->
                             IF i <= Len(@) THEN @[i] ELSE <<0, 0, 0>>]]

\* length = len(dset['id']) + 1 and the two resize calls
Resize(dset) ==
    LET length == Len(dset.id) + 1
    IN  ResizeData(ResizeId(dset, length), length)

\* the id written to the first entry of the array, dset['id'][0]
WriteIdFirst(dset, d) == [dset EXCEPT !.id[1] = Str(d.id)]

\* dset['id'][-1] = str(d['id'])
WriteId(dset, d) == [dset EXCEPT !.id[Len(dset.id)] = Str(d.id)]

\* dset['data'][-1, :] = np.asarray([d['score'], d['time'], d['n_samples']])
WriteData(dset, d) ==
    [dset EXCEPT !.data[Len(dset.data)] =
        << Float32(d.score), Float32(d.time), Float32(d.n_samples) >>]

\* the loop body for the record d cut short after its first stmts
\* assignments to the file: resize of 'id', resize of 'data', write of the id
AppendRecordCut(dset, d, stmts) ==
    LET length == Len(dset.id) + 1
    IN  IF stmts = 1 THEN ResizeId(dset, length)
        ELSE IF stmts = 2 THEN Resize(dset)
        ELSE WriteId(Resize(dset), d)

\* an append that skips the record whose id the table already holds
AppendRecordDedup(dset, d) ==
    IF "id" \in DOMAIN d /\ (\E i \in 1..Len(dset.id) : dset.id[i] = Str(d.id))
    THEN [status |-> "ok", dset |-> dset]
    ELSE LET resized == Resize(dset)
         IN  IF "id" \notin DOMAIN d
             THEN [status |-> "KeyError", dset |-> resized]
             ELSE IF {"score", "time", "n_samples"} \subseteq DOMAIN d
             THEN [status |-> "ok", dset |-> WriteData(WriteId(resized, d), d)]
             ELSE [status |-> "KeyError", dset |-> WriteId(resized, d)]

\* the body of the loop over dlist, for the record d
AppendRecord(dset, d) ==
    LET resized == Resize(dset)
    IN  IF "id" \notin DOMAIN d
        THEN [status |-> "KeyError", dset |-> resized]
        ELSE IF {"score", "time", "n_samples"} \subseteq DOMAIN d
        THEN [status |-> "ok", dset |-> WriteData(WriteId(resized, d), d)]
        ELSE [status |-> "KeyError", dset |-> WriteId(resized, d)]

\* for d in dlist: ..., which an exception leaves
RECURSIVE AppendAll(_, _)
AppendAll(dset, dlist) ==
    IF dlist = <<>> THEN [status |-> "ok", dset |-> dset]
    ELSE LET r == AppendRecord(dset, Head(dlist))
         IN  IF r.status = "ok" THEN AppendAll(r.dset, Tail(dlist)) ELSE r

\* dset = ppline_grp.create_group(dname) and the attributes and arrays it
\* gets from the first record d1; n_channels is read after the arrays are made
CreateTable(d1) ==
    LET made == [attrs |-> ("n_subj" :> d1.dataset.n_subj
                            @@ "n_sessions" :> d1.dataset.n_sessions),
                 id |-> <<>>, data |-> <<>>]
    IN  IF "n_channels" \notin DOMAIN d1
        THEN [status |-> "KeyError", dset |-> made]
        ELSE [status |-> "ok",
              dset |-> [made EXCEPT !.attrs =
                            Put(Put(@, "channels", d1.n_channels),
                                "columns", Columns)]]

\* a table that every add makes anew, without the rows it had
OpenTableAnew(ppline_grp, dname, d1) == CreateTable(d1)

\* a table whose attributes are stamped from d1 also when it is there already
OpenTableRestamp(ppline_grp, dname, d1) ==
    IF dname \in DOMAIN ppline_grp.members
    THEN [status |-> "ok",
          dset |-> [ppline_grp.members[dname] EXCEPT
                      !.attrs = CreateTable(d1).dset.attrs]]
    ELSE CreateTable(d1)

\* if dname not in ppline_grp.keys(): ...; dset = ppline_grp[dname]
OpenTable(ppline_grp, dname, d1) ==
    IF dname \in DOMAIN ppline_grp.members
    THEN [status |-> "ok", dset |-> ppline_grp.members[dname]]
    ELSE CreateTable(d1)

\* a group whose name and repr are written when it is made, and not again
WriteGroupOnce(f, digest, name, pipeline) ==
    IF digest \in DOMAIN f THEN f
    ELSE Put(f, digest,
             [attrs |-> Put(Put(Empty, "name", name), "repr", pipeline.repr),
              members |-> Empty])

\* the pipeline group of digest, created when it is not in the file, with
\* its name and repr attributes written
WriteGroup(f, digest, name, pipeline) ==
    LET grp == IF digest \in DOMAIN f THEN f[digest]
               ELSE [attrs |-> Empty, members |-> Empty]
    IN  Put(f, digest,
            [grp EXCEPT !.attrs = Put(Put(@, "name", name),
                                      "repr", pipeline.repr)])

\* the dataset code taken from the last record of dlist
TableCodeOfLast(dlist) == dlist[Len(dlist)].dataset.code

\* the dataset code the records of dlist are stored under
TableCode(dlist) == dlist[1].dataset.code

\* one pass of the loop over results.items(): the file it leaves and the
\* exception that ended it, if any
AddEntry(f, name, data_dict, pipelines) ==
    IF name \notin DOMAIN pipelines THEN [status |-> "KeyError", f |-> f]
    ELSE
    LET digest == get_digest(pipelines[name])
        f1     == WriteGroup(f, digest, name, pipelines[name])
        tl     == to_list(data_dict)
        dlist  == tl.dlist
        d1     == dlist[1]
        dname  == TableCode(dlist)
        made   == OpenTable(f1[digest], dname, d1)
        app    == AppendAll(made.dset, dlist)
        store(dset) == [f1 EXCEPT ![digest].members = Put(@, dname, dset)]
    IN  IF tl.status # "ok" THEN [status |-> tl.status, f |-> f1]
        ELSE IF dlist = <<>> THEN [status |-> "IndexError", f |-> f1]
        ELSE IF "dataset" \notin DOMAIN d1 THEN [status |-> "KeyError", f |-> f1]
        ELSE IF made.status # "ok"
        THEN [status |-> made.status, f |-> store(made.dset)]
        ELSE [status |-> app.status, f |-> store(app.dset)]

\* add(results, pipelines): results is the sequence of (name, payload) pairs
\* in the order results.items() gives them; done counts the pairs whose
\* pass ended without an exception
RECURSIVE add(_, _, _)
add(f, results, pipelines) ==
    IF results = <<>> THEN [status |-> "ok", f |-> f, done |-> 0]
    ELSE LET r == AddEntry(f, results[1].name, results[1].payload, pipelines)
         IN  IF r.status # "ok"
             THEN [status |-> r.status, f |-> r.f, done |-> 0]
             ELSE LET rest == add(r.f, Tail(results), pipelines)
                  IN  [rest EXCEPT !.done = @ + 1]

(***************************************************************************)
(* Results._already_computed and Results.not_yet_computed                  *)
(***************************************************************************)
\* str(subject) in dset['id']: the scan of the array for an equal string
\* (the entries are read back as the str objects that were written)
InIds(x, ids) == \E i \in 1..Len(ids) : ids[i] = x

\* _already_computed without the level of the dataset code: the subject
\* is looked for in every table of the pipeline group
AlreadyComputedAnyTable(f, pipeline, dataset, subject) ==
    LET digest == get_digest(pipeline)
    IN  IF digest \notin DOMAIN f THEN FALSE
        ELSE \E c \in DOMAIN f[digest].members :
                 InIds(Str(subject), f[digest].members[c].id)

_already_computed(f, pipeline, dataset, subject) ==
    LET digest == get_digest(pipeline)
    IN  IF digest \notin DOMAIN f THEN FALSE
        ELSE IF dataset.code \notin DOMAIN f[digest].members THEN FALSE
        ELSE InIds(Str(subject), f[digest].members[dataset.code].id)

\* not_yet_computed without the "not" of its filter
NotYetComputedInverted(f, pipelines, dataset, subj) ==
    LET keep == { k \in DOMAIN pipelines :
                     _already_computed(f, pipelines[k], dataset, subj) }
    IN  [k \in keep |-> pipelines[k]]

\* {k: pipelines[k] for k in pipelines.keys() if not _already_computed(...)}
not_yet_computed(f, pipelines, dataset, subj) ==
    LET keep == { k \in DOMAIN pipelines :
                     ~ _already_computed(f, pipelines[k], dataset, subj) }
    IN  [k \in keep |-> pipelines[k]]

(***************************************************************************)
(* Results.to_dataframe                                                    *)
(***************************************************************************)
\* p_group[key]: the member of the group with that name, not an attribute
GetMember(grp, key) ==
    IF key \in DOMAIN grp.members
    THEN [status |-> "ok", obj |-> grp.members[key]]
    ELSE [status |-> "KeyError", obj |-> Empty]

\* the value pandas gives a cell that has no data
NaN == "NaN"

\* the DataFrame made of one dataset subgroup: df['id'] = ids raises when
\* the frame has rows and ids has another length; a frame without rows
\* takes the index of ids, its measures being NaN
Frame(dset, dname, name) ==
    IF "columns" \notin DOMAIN dset.attrs
    THEN [status |-> "KeyError", rows |-> <<>>]
    ELSE IF Len(dset.data) # 0 /\ Len(dset.id) # Len(dset.data)
    THEN [status |-> "ValueError", rows |-> <<>>]
    ELSE [status |-> "ok",
          rows |-> [i \in 1..Len(dset.id) |->
                      [score |-> IF Len(dset.data) = 0 THEN NaN
                                 ELSE dset.data[i][1],
                       time |-> IF Len(dset.data) = 0 THEN NaN
                                ELSE dset.data[i][2],
                       samples |-> IF Len(dset.data) = 0 THEN NaN
                                   ELSE dset.data[i][3],
                       id |-> dset.id[i],
                       channels |-> dset.attrs["channels"],
                       n_sessions |-> dset.attrs["n_sessions"],
                       dataset |-> dname, pipeline |-> name]]]

\* for dname, dset in p_group.items(): ..., codes being the names still to
\* visit and dfs the frames made so far
RECURSIVE GroupFrames(_, _, _, _)
GroupFrames(grp, name, codes, dfs) ==
    IF codes = <<>> THEN [status |-> "ok", dfs |-> dfs]
    ELSE IF Head(codes) \notin DOMAIN grp.members
    THEN GroupFrames(grp, name, Tail(codes), dfs)
    ELSE LET df == Frame(grp.members[Head(codes)], Head(codes), name)
         IN  IF df.status # "ok" THEN [status |-> df.status, dfs |-> dfs]
             ELSE GroupFrames(grp, name, Tail(codes), Append(dfs, df.rows))

\* for _, p_group in f.items(): ..., digests being the names still to visit
RECURSIVE FileFrames(_, _, _)
FileFrames(f, digests, dfs) ==
    IF digests = <<>> THEN [status |-> "ok", dfs |-> dfs]
    ELSE IF Head(digests) \notin DOMAIN f
    THEN FileFrames(f, Tail(digests), dfs)
    ELSE LET name == GetMember(f[Head(digests)], "name")
         IN  IF name.status # "ok" THEN [status |-> name.status, dfs |-> dfs]
             ELSE LET g == GroupFrames(f[Head(digests)], name.obj,
                                       CodeOrder, dfs)
                  IN  IF g.status # "ok" THEN g
                      ELSE FileFrames(f, Tail(digests), g.dfs)

RECURSIVE Concat(_)
Concat(dfs) == IF dfs = <<>> THEN <<>> ELSE Head(dfs) \o Concat(Tail(dfs))

\* a concatenation that makes an empty table of no frames
PdConcatLenient(dfs) == [status |-> "ok", rows |-> Concat(dfs)]

\* pd.concat(df_list, ignore_index=True), which raises ValueError on []
PdConcat(dfs) ==
    IF dfs = <<>> THEN [status |-> "ValueError", rows |-> <<>>]
    ELSE [status |-> "ok", rows |-> Concat(dfs)]

to_dataframe(f) ==
    LET r == FileFrames(f, DigestOrder, <<>>)
    IN  IF r.status # "ok" THEN [status |-> r.status, rows |-> <<>>]
        ELSE PdConcat(r.dfs)

\* an opening that cuts every 'data' array to the length of its 'id' array
OpenedRepaired(f, overwrite) ==
    IF overwrite THEN Empty
    ELSE [g \in DOMAIN f |->
            [f[g] EXCEPT !.members =
                [c \in DOMAIN @ |-> ResizeData(@[c], Len(@[c].id))]]]

(***************************************************************************)
(* Results.__init__                                                        *)
(***************************************************************************)
\* a constructor that makes the file anew whether it is there or not
OpenedAnew(f, overwrite) == EmptyFile

\* the file at self.filepath after the constructor ran on the file f:
\* removed when overwrite is set, then made anew when it is not there
Opened(f, overwrite) == IF overwrite THEN EmptyFile ELSE f

(***************************************************************************)
(* The inputs of the calls.                                                *)
(***************************************************************************)
Entry(n, p) == [name |-> n, payload |-> p]

\* results dicts with one pipeline name, and with two
ResultsInputs ==
    { <<Entry(n, p)>> : n \in Names, p \in Payloads }
    \cup { <<Entry(ns[1], p1), Entry(ns[2], p2)>> :
             ns \in { q \in Names \X Names : q[1] # q[2] },
             p1 \in SmallPayloads, p2 \in SmallPayloads }

NamesOf(results) == { results[i].name : i \in 1..Len(results) }

\* pipelines dicts for a call: a pipeline for every name of results; the
\* calls with two names give P1 the first pipeline
PipelinesInputs(results) ==
    IF Len(results) = 1 THEN [NamesOf(results) -> Pipelines]
    ELSE { m \in [NamesOf(results) -> Pipelines] : m["P1"].oid = 1 }

\* the subjects not_yet_computed is asked for
FilterSubjects == { PyInt(1), PyInt(2) }

\* the datasets asked for, one of each code
QueryDatasets == { d \in Datasets : d.n_subj = 5 }

\* the pipelines dicts not_yet_computed is given: no name, two names, two
\* names of one repr
PipelineDicts ==
    { Empty,
      "P1" :> [oid |-> 1, repr |-> "CSP+LDA"] @@ "P2" :> [oid |-> 3, repr |-> "MDM"],
      "P1" :> [oid |-> 2, repr |-> "CSP+LDA"] @@ "P2" :> [oid |-> 1, repr |-> "CSP+LDA"] }

\* number of records a call may append
RECURSIVE RecordCount(_)
RecordCount(results) ==
    IF results = <<>> THEN 0
    ELSE Len(results[1].payload.items) + RecordCount(Tail(results))

\* the file and the open handles after n calls of _already_computed
RECURSIVE ReadOnlyTimes(_, _)
ReadOnlyTimes(f, n) == IF n = 0 THEN f ELSE ReadOnlyTimes(ReadOnly(f), n - 1)

RECURSIVE WithFileTimes(_, _)
WithFileTimes(open, n) ==
    IF n = 0 THEN open ELSE WithFileTimes(WithFile(open, "ok"), n - 1)

(***************************************************************************)
(* The state machine.                                                      *)
(***************************************************************************)
\* the first Results object of the process, on a path without a file
Init ==
    /\ file = EmptyFile
    /\ last = [op |-> "__init__", overwrite |-> FALSE, status |-> "ok"]
    /\ handles = 0

\* Results(evaluation_class, paradigm_class, suffix, overwrite) on the same
\* path; the two assertions on the classes come before the file is touched
Construct ==
    \E overwrite \in BOOLEAN, classes_ok \in BOOLEAN :
        IF classes_ok
        THEN /\ file' = Opened(file, overwrite)
             /\ last' = [op |-> "__init__", overwrite |-> overwrite,
                         status |-> "ok"]
             /\ handles' = IF overwrite THEN WithFile(handles, "ok")
                                        ELSE handles
        ELSE /\ file' = file
             /\ last' = [op |-> "__init__", overwrite |-> overwrite,
                         status |-> "AssertionError"]
             /\ handles' = handles

\* add(results, pipelines), on a file that has room for the records
Add ==
    \E room \in { MaxRows - TotalRows(file) } :
        \E results \in { x \in ResultsInputs : RecordCount(x) <= room } :
            \E pipelines \in PipelinesInputs(results) :
                \E r \in { add(file, results, pipelines) } :
                    /\ file' = r.f
                    /\ last' = [op |-> "add", results |-> results,
                                pipelines |-> pipelines, done |-> r.done,
                                status |-> r.status]
                    /\ handles' = WithFile(handles, r.status)

AlreadyComputed ==
    \E pipeline \in Pipelines, dataset \in QueryDatasets, subject \in Subjects :
        /\ last' = [op |-> "_already_computed", pipeline |-> pipeline,
                    dataset |-> dataset, subject |-> subject,
                    status |-> "ok",
                    ret |-> _already_computed(file, pipeline, dataset, subject)]
        /\ file' = ReadOnly(file)
        /\ handles' = WithFile(handles, "ok")

NotYetComputed ==
    \E pipelines \in PipelineDicts, dataset \in QueryDatasets,
       subj \in FilterSubjects :
        /\ last' = [op |-> "not_yet_computed", pipelines |-> pipelines,
                    dataset |-> dataset, subject |-> subj,
                    status |-> "ok",
                    left |-> not_yet_computed(file, pipelines, dataset, subj)]
        /\ file' = ReadOnlyTimes(file, Cardinality(DOMAIN pipelines))
        /\ handles' = WithFileTimes(handles, Cardinality(DOMAIN pipelines))

\* to_dataframe(): the with block ends before pd.concat is called
ToDataframe ==
    LET r == to_dataframe(file)
    IN  /\ last' = [op |-> "to_dataframe", status |-> r.status,
                    rows |-> r.rows]
        /\ file' = ReadOnly(file)
        /\ handles' = WithFile(handles,
                                FileFrames(file, DigestOrder, <<>>).status)

\* the payloads of the add calls that are interrupted
CrashPayloads == { PyDict(BaseRecord), PyList(<<BaseRecord, OtherRecord>>) }

\* the statements of the loop body an interrupted pass has completed
CrashPoints == 1..3

\* add({name: payload}, pipelines) by a process that dies in the loop over
\* the records: the records before the k-th are appended and the body for
\* the k-th has run its first stmts statements; the handle dies with the
\* process
AddCrash ==
    \E name \in Names, payload \in CrashPayloads, pipeline \in Pipelines :
        \E k \in 1..Len(payload.items), stmts \in CrashPoints :
            LET dlist  == to_list(payload).dlist
                digest == get_digest(pipeline)
                f1     == WriteGroup(file, digest, name, pipeline)
                dname  == TableCode(dlist)
                made   == OpenTable(f1[digest], dname, dlist[1])
                app    == AppendAll(made.dset, SubSeq(dlist, 1, k - 1))
                cut    == AppendRecordCut(app.dset, dlist[k], stmts)
            IN  /\ TotalRows(file) + k <= MaxRows
                /\ file' = [f1 EXCEPT ![digest].members = Put(@, dname, cut)]
                /\ last' = [op |-> "crash", name |-> name, payload |-> payload,
                            pipeline |-> pipeline, record |-> k,
                            stmts |-> stmts]
                /\ handles' = 0

Next == Construct \/ Add \/ AlreadyComputed \/ NotYetComputed \/ ToDataframe

Spec == Init /\ [][Next]_vars

\* the object of a process that died is gone: the next call on the file is
\* the construction of a Results object by a new process
Running == last.op # "crash"

NextCrash ==
    \/ Running /\ Construct
    \/ Running /\ Add
    \/ Running /\ AddCrash
    \/ ~Running /\ Construct

\* the calls that write the file, and processes that die during add (the
\* queries leave the file and are left out)
SpecCrash == Init /\ [][NextCrash]_vars

(***************************************************************************)
(* Properties.                                                             *)
(***************************************************************************)
\* the call recorded in last is an add of one pipeline name whose payload
\* is a single record, and it returned
SingleRecordAdded ==
    /\ last.op = "add"
    /\ last.status = "ok"
    /\ Len(last.results) = 1
    /\ last.results[1].payload.type = "dict"

\* the add call c appended the string x to the 'id' array of the table of
\* digest and code
AppendedBy(c, digest, code, x) ==
    \E i \in 1..Len(c.results) :
        LET e == c.results[i]
        IN  /\ get_digest(c.pipelines[e.name]) = digest
            /\ e.payload.type \in {"dict", "list"}
            /\ e.payload.items # <<>>
            /\ "dataset" \in DOMAIN e.payload.items[1]
            /\ e.payload.items[1].dataset.code = code
            /\ \E j \in 1..Len(e.payload.items) :
                   /\ "id" \in DOMAIN e.payload.items[j]
                   /\ Str(e.payload.items[j].id) = x

\* C1, first half: after add({p: record}) returned, _already_computed(p,
\* record.dataset, record.id) is true
C1_AddedIsComputed ==
    SingleRecordAdded =>
        LET e == last.results[1]
            d == e.payload.items[1]
        IN  _already_computed(file, last.pipelines[e.name], d.dataset, d.id)

\* C1, second half: _already_computed(p, dataset, subject) is false at the
\* start and turns true only in an add that appends str(subject) under the
\* digest of p and the code of dataset
C1_ComputedOnlyByAppend ==
    file' # file =>
        \A p \in Pipelines, ds \in QueryDatasets, s \in Subjects :
            (_already_computed(file', p, ds, s)
             /\ ~ _already_computed(file, p, ds, s))
            => /\ last'.op = "add"
               /\ AppendedBy(last', get_digest(p), ds.code, Str(s))

\* C1: a single record that add stored is already computed, and no
\* (pipeline, dataset, subject) is already computed unless an add appended
\* str(subject) under the pipeline's digest and the dataset's code
C1_AlreadyComputedIffAppended ==
    /\ [] C1_AddedIsComputed
    /\ \A p \in Pipelines, ds \in Datasets, s \in Subjects :
           ~ _already_computed(EmptyFile, p, ds, s)
    /\ [][C1_ComputedOnlyByAppend]_vars

\* a single record with an int id was added next to a table of the other
\* code, and the subject it does not hold is not computed
C1_Witness ==
    /\ SingleRecordAdded
    /\ last.results[1].payload.items[1].id = PyInt(1)
    /\ \E g \in DOMAIN file : Cardinality(DOMAIN file[g].members) = 2
    /\ \E p \in Pipelines, ds \in Datasets :
           /\ _already_computed(file, p, ds, PyStr("1"))
           /\ ~ _already_computed(file, p, ds, PyInt(2))

\* C2: not_yet_computed returns exactly the entries of pipelines that are
\* not already computed, each with its own pipeline object, and the sizes
\* of the result and of the computed part add up to the size of the input
C2_NotYetComputedIsFilter ==
    last.op = "not_yet_computed" =>
        LET in       == last.pipelines
            out      == last.left
            computed == { k \in DOMAIN in :
                            _already_computed(file, in[k], last.dataset,
                                              last.subject) }
        IN  /\ DOMAIN out = (DOMAIN in) \ computed
            /\ \A k \in DOMAIN out : out[k] = in[k]
            /\ Cardinality(DOMAIN out) + Cardinality(computed)
                 = Cardinality(DOMAIN in)

\* not_yet_computed was given two pipelines, one computed and one not
C2_Witness ==
    /\ last.op = "not_yet_computed"
    /\ Cardinality(DOMAIN last.pipelines) = 2
    /\ Cardinality(DOMAIN last.left) = 1

\* C7: to_dataframe on a file nothing was added to ends in the ValueError
\* of pd.concat, it returns no table
C7_EmptyStoreFails ==
    (last.op = "to_dataframe" /\ file = EmptyFile) =>
        (last.status = "ValueError" /\ last.rows = <<>>)

\* to_dataframe was called on the empty file
C7_Witness == last.op = "to_dataframe" /\ file = EmptyFile

\* the tables of the file f, as pairs of digest and dataset code
Tables(f) == { <<g, c>> \in Digests \X DatasetCodes :
                 g \in DOMAIN f /\ c \in DOMAIN f[g].members }

Table(f, t) == f[t[1]].members[t[2]]

IsPrefix(a, b) == Len(a) <= Len(b) /\ \A i \in 1..Len(a) : a[i] = b[i]

\* the digest and the dataset code the i-th pair of the add call c goes to
EntryDigest(c, i) == get_digest(c.pipelines[c.results[i].name])
EntryCode(c, i) == c.results[i].payload.items[1].dataset.code

\* number of records the add call c gives for the table t
RECURSIVE GivenFor(_, _, _)
GivenFor(c, t, i) ==
    IF i = 0 THEN 0
    ELSE GivenFor(c, t, i - 1)
         + (IF EntryDigest(c, i) = t[1] /\ EntryCode(c, i) = t[2]
            THEN Len(c.results[i].payload.items) ELSE 0)

C3_SameLength ==
    \A t \in Tables(file) : Len(Table(file, t).id) = Len(Table(file, t).data)

C3_AddOnlyAppends ==
    (file' # file /\ last'.op = "add") =>
        /\ \A t \in Tables(file) :
               /\ t \in Tables(file')
               /\ IsPrefix(Table(file, t).id, Table(file', t).id)
               /\ IsPrefix(Table(file, t).data, Table(file', t).data)
        /\ last'.status = "ok" =>
               \A t \in Tables(file') :
                   LET before == IF t \in Tables(file)
                                 THEN Len(Table(file, t).id) ELSE 0
                       given  == GivenFor(last', t, Len(last'.results))
                   IN  /\ Len(Table(file', t).id) = before + given
                       /\ Len(Table(file', t).data) = before + given

\* C3: the 'id' and 'data' arrays of every table have the same length in
\* every state; an add leaves the rows a table had where they were and as
\* they were, and an add that returns grows both arrays of a table by one
\* per record given for it, whether or not the table holds the id already
C3_ParallelArrays == [] C3_SameLength /\ [][C3_AddOnlyAppends]_vars

\* an add returned that gave an id its table held already: the table holds
\* the id twice
C3_Witness ==
    /\ last.op = "add"
    /\ last.status = "ok"
    /\ \E t \in Tables(file) :
           /\ Len(Table(file, t).id) = 2
           /\ Table(file, t).id[1] = Table(file, t).id[2]
           /\ GivenFor(last, t, Len(last.results)) = 1

\* v is a single-precision value nearest to the integer x
IsNearestSingle(v, x) ==
    /\ v % Ulp(v) = 0
    /\ \A w \in (x - Ulp(x))..(x + Ulp(x)) :
           w % Ulp(w) = 0 =>
               (IF v >= x THEN v - x ELSE x - v)
                   <= (IF w >= x THEN w - x ELSE x - w)

\* the step is an add of records for one pipeline name that returned and
\* that made the table the records went to
AddedToFreshTable ==
    /\ last'.op = "add"
    /\ last'.status = "ok"
    /\ Len(last'.results) = 1
    /\ <<EntryDigest(last', 1), EntryCode(last', 1)>> \notin Tables(file)

\* C4 as stated: the N records given for a table that was not there make
\* its N rows, row i holding str(id) and (score, time, n_samples) of record i
C4_FreshTableHoldsExactRecords ==
    [][ AddedToFreshTable =>
          LET ds    == last'.results[1].payload.items
              tbl   == Table(file', <<EntryDigest(last', 1), EntryCode(last', 1)>>)
          IN  /\ Len(tbl.id) = Len(ds)
              /\ Len(tbl.data) = Len(ds)
              /\ \A i \in 1..Len(ds) :
                     /\ tbl.id[i] = Str(ds[i].id)
                     /\ tbl.data[i] = << ds[i].score, ds[i].time,
                                         ds[i].n_samples >> ]_vars

\* C4, amended: the N records given for a table that was not there make its
\* N rows, row i holding str(id) of record i and the single-precision
\* values nearest to its score, time and n_samples
C4_FreshTableHoldsRecords ==
    [][ AddedToFreshTable =>
          LET ds    == last'.results[1].payload.items
              tbl   == Table(file', <<EntryDigest(last', 1), EntryCode(last', 1)>>)
          IN  /\ Len(tbl.id) = Len(ds)
              /\ Len(tbl.data) = Len(ds)
              /\ \A i \in 1..Len(ds) :
                     /\ tbl.id[i] = Str(ds[i].id)
                     /\ IsNearestSingle(tbl.data[i][1], ds[i].score)
                     /\ IsNearestSingle(tbl.data[i][2], ds[i].time)
                     /\ IsNearestSingle(tbl.data[i][3], ds[i].n_samples) ]_vars

\* a list of two records was added to a table that holds just these two
\* rows, the second of them with a sample count that was rounded
C4_Witness ==
    /\ last.op = "add"
    /\ last.status = "ok"
    /\ Len(last.results) = 1
    /\ last.results[1].payload.type = "list"
    /\ Len(last.results[1].payload.items) = 2
    /\ LET tbl == Table(file, <<EntryDigest(last, 1), EntryCode(last, 1)>>)
       IN  /\ Len(tbl.id) = 2
           /\ tbl.id[1] # tbl.id[2]
           /\ tbl.data[2][3] # last.results[1].payload.items[2].n_samples

\* C5: a constructor that ran with overwrite=False leaves the file as it
\* was, groups, tables and rows; one that ran with overwrite=True leaves a
\* file without groups and rows
C5_ReopenKeepsOverwriteWipes ==
    [][ (last'.op = "__init__" /\ last'.status = "ok") =>
          IF last'.overwrite
          THEN DOMAIN file' = {} /\ TotalRows(file') = 0
          ELSE /\ file' = file
               /\ \A p \in Pipelines, ds \in Datasets, s \in Subjects :
                      _already_computed(file', p, ds, s)
                          = _already_computed(file, p, ds, s) ]_vars

\* the constructor ran with overwrite=False on a file that holds rows
C5_Witness ==
    /\ last.op = "__init__"
    /\ last.status = "ok"
    /\ ~ last.overwrite
    /\ TotalRows(file) = MaxList

\* the file holds two pipeline groups of one table each, both with rows
TwoPipelinesOneTableEach ==
    /\ Cardinality(DOMAIN file) = 2
    /\ \A g \in DOMAIN file : Cardinality(DOMAIN file[g].members) = 1
    /\ \A t \in Tables(file) :
           /\ Len(Table(file, t).id) > 0
           /\ "columns" \in DOMAIN Table(file, t).attrs

\* C6: to_dataframe on a file that holds two pipeline groups of one table
\* each returns a table with the rows of both, each row with the name of its
\* pipeline group, the code of its table and the table's channels and
\* n_sessions
C6_DataframeHoldsAllRows ==
    (last.op = "to_dataframe" /\ TwoPipelinesOneTableEach) =>
        /\ last.status = "ok"
        /\ Len(last.rows) = TotalRows(file)
        /\ \A i \in 1..Len(last.rows) :
               \E t \in Tables(file) :
                   /\ last.rows[i].pipeline = file[t[1]].attrs["name"]
                   /\ last.rows[i].dataset = t[2]
                   /\ last.rows[i].channels = Table(file, t).attrs["channels"]
                   /\ last.rows[i].n_sessions
                        = Table(file, t).attrs["n_sessions"]
                   /\ \E j \in 1..Len(Table(file, t).id) :
                          last.rows[i].id = Table(file, t).id[j]

\* the payload of the i-th pair of the add call c is neither dict nor list
BadPayload(c, i) == c.results[i].payload.type \notin {"dict", "list"}

C8_BadPayloadStops ==
    last'.op = "add" =>
        \A k \in 1..Len(last'.results) :
            (BadPayload(last', k) /\ last'.done >= k - 1) =>
                /\ last'.status = "ValueError"
                /\ last'.done = k - 1
                /\ Tables(file') = Tables(file)
                       \cup { <<EntryDigest(last', i), EntryCode(last', i)>> :
                              i \in 1..(k - 1) }
                /\ \A t \in Tables(file') :
                       LET before == IF t \in Tables(file)
                                     THEN Table(file, t).id ELSE <<>>
                           given  == GivenFor(last', t, k - 1)
                       IN  /\ IsPrefix(before, Table(file', t).id)
                           /\ Len(Table(file', t).id) = Len(before) + given
                           /\ Len(Table(file', t).data) = Len(before) + given
                /\ \A i \in 1..(k - 1) :
                       \A j \in 1..Len(last'.results[i].payload.items) :
                           _already_computed(file',
                               last'.pipelines[last'.results[i].name],
                               last'.results[i].payload.items[1].dataset,
                               last'.results[i].payload.items[j].id)

\* C8: an add that comes to a payload that is neither a dict nor a list
\* raises ValueError there; the tables and rows of the pipeline names
\* before it are in the file, and no table and no row is there for it or
\* for a name after it
C8_BadPayloadRaises == [][C8_BadPayloadStops]_vars

\* an add of two names stored the record of the first and failed on the
\* payload of the second
C8_Witness ==
    /\ last.op = "add"
    /\ last.status = "ValueError"
    /\ Len(last.results) = 2
    /\ last.done = 1
    /\ BadPayload(last, 2)
    /\ TotalRows(file) = 1
    /\ Cardinality(DOMAIN file) = 2

\* C9: pipelines of one repr have one digest, so _already_computed does
\* not tell them apart in any state, every record an add stored for one of
\* them is already computed for the other, and the file holds no more
\* groups than there are reprs
C9_IdentityIsRepr ==
    /\ \A p1 \in Pipelines, p2 \in Pipelines :
           p1.repr = p2.repr =>
               /\ get_digest(p1) = get_digest(p2)
               /\ \A ds \in QueryDatasets, s \in Subjects :
                      _already_computed(file, p1, ds, s)
                          = _already_computed(file, p2, ds, s)
    /\ Cardinality(DOMAIN file) <= Cardinality(Reprs)
    /\ (last.op = "add" /\ last.status = "ok") =>
           \A i \in 1..Len(last.results) :
               \A p2 \in Pipelines :
                   p2.repr = last.pipelines[last.results[i].name].repr =>
                       /\ get_digest(p2) \in DOMAIN file
                       /\ \A j \in 1..Len(last.results[i].payload.items) :
                              _already_computed(file, p2,
                                  last.results[i].payload.items[1].dataset,
                                  last.results[i].payload.items[j].id)

\* an add stored a record under each of two names whose pipelines are two
\* objects of one repr: one group holds both rows
C9_Witness ==
    /\ last.op = "add"
    /\ last.status = "ok"
    /\ Len(last.results) = 2
    /\ last.pipelines["P1"] # last.pipelines["P2"]
    /\ last.pipelines["P1"].repr = last.pipelines["P2"].repr
    /\ Cardinality(DOMAIN file) = 1
    /\ TotalRows(file) = 2

\* the i-th pair of the add call c has a first record with a dataset, and
\* goes to the table t
Targets(c, i, t) ==
    /\ ~ BadPayload(c, i)
    /\ c.results[i].payload.items # <<>>
    /\ "dataset" \in DOMAIN c.results[i].payload.items[1]
    /\ EntryDigest(c, i) = t[1]
    /\ EntryCode(c, i) = t[2]

\* the attributes a table gets from the record d1
StampedFrom(attrs, d1) ==
    /\ DOMAIN attrs = {"n_subj", "n_sessions", "channels", "columns"}
    /\ attrs["n_subj"] = d1.dataset.n_subj
    /\ attrs["n_sessions"] = d1.dataset.n_sessions
    /\ attrs["channels"] = d1.n_channels
    /\ attrs["columns"] = Columns

C10_MetadataStep ==
    (file' # file /\ last'.op = "add") =>
        /\ \A t \in Tables(file) :
               /\ t \in Tables(file')
               /\ Table(file', t).attrs = Table(file, t).attrs
        /\ \A t \in Tables(file') \ Tables(file) :
               \E i \in 1..Len(last'.results) :
                   /\ Targets(last', i, t)
                   /\ \A h \in 1..(i - 1) : ~ Targets(last', h, t)
                   /\ StampedFrom(Table(file', t).attrs,
                                  last'.results[i].payload.items[1])

\* C10: an add leaves the attributes of every table that is there as they
\* are, whatever its records carry, and a table it makes has its
\* attributes from the first record of the first payload that goes to it
C10_MetadataSetOnce == [][C10_MetadataStep]_vars

\* a record of 16 channels and a dataset of 3 subjects was added to a table
\* stamped with 32 channels and 5 subjects
C10_Witness ==
    /\ SingleRecordAdded
    /\ LET d   == last.results[1].payload.items[1]
           tbl == Table(file, <<EntryDigest(last, 1), EntryCode(last, 1)>>)
       IN  /\ d.n_channels = 16
           /\ d.dataset.n_subj = 3
           /\ tbl.attrs["channels"] = 32
           /\ tbl.attrs["n_subj"] = 5
           /\ Len(tbl.id) = 2

\* the pairs of the add call c that its loop came to: those that passed,
\* and the one that raised
Reached(c) ==
    { i \in 1..Len(c.results) : i <= c.done + 1 }

C11_GroupStep ==
    last'.op = "add" =>
        /\ DOMAIN file' = DOMAIN file
                             \cup { EntryDigest(last', i) : i \in Reached(last') }
        /\ \A g \in DOMAIN file' :
               LET is == { i \in Reached(last') : EntryDigest(last', i) = g }
               IN  IF is = {}
                   THEN file'[g].attrs = file[g].attrs
                   ELSE LET i == CHOOSE x \in is : \A y \in is : y <= x
                            n == last'.results[i].name
                        IN  /\ file'[g].attrs["name"] = n
                            /\ file'[g].attrs["repr"] = last'.pipelines[n].repr
        /\ \A t \in Tables(file) :
               /\ t \in Tables(file')
               /\ IsPrefix(Table(file, t).id, Table(file', t).id)
               /\ IsPrefix(Table(file, t).data, Table(file', t).data)

\* C11: an add makes the group of every digest it comes to that is not in
\* the file, and leaves on the group of each digest the name and repr of
\* the last pair of the call with that digest; the groups it does not come
\* to keep their attributes, and the rows of all tables are kept
C11_LastNameWins == [][C11_GroupStep]_vars

\* an add gave two names for one digest: the group has the second name and
\* the rows of both
C11_Witness ==
    /\ last.op = "add"
    /\ last.status = "ok"
    /\ Len(last.results) = 2
    /\ EntryDigest(last, 1) = EntryDigest(last, 2)
    /\ file[EntryDigest(last, 2)].attrs["name"] = last.results[2].name
    /\ file[EntryDigest(last, 2)].attrs["name"] # last.results[1].name
    /\ GroupRows(file[EntryDigest(last, 2)]) = 2

\* C12: between two calls no handle on the file is open, whichever method
\* ran last and whether it returned or raised
C12_NoHandleLeftOpen == handles = 0

\* an add raised on a record that lacks a key, after it had resized the
\* arrays, and no handle is open
C12_Witness ==
    /\ last.op = "add"
    /\ last.status = "KeyError"
    /\ TotalRows(file) > 0
    /\ handles = 0

Queries == {"_already_computed", "not_yet_computed", "to_dataframe"}

\* C13: a call of _already_computed, not_yet_computed or to_dataframe,
\* returning or raising, leaves the file as it was: groups, attributes,
\* tables and rows
C13_QueriesLeaveFile ==
    [][ last'.op \in Queries =>
          /\ file' = file
          /\ DOMAIN file' = DOMAIN file
          /\ Tables(file') = Tables(file) ]_vars

\* to_dataframe raised on a file that holds rows, and the rows are there
C13_Witness ==
    /\ last.op = "to_dataframe"
    /\ last.status = "KeyError"
    /\ TotalRows(file) = MaxRows

\* some table of the file has 'id' and 'data' arrays of different lengths
Mismatched(f) ==
    \E t \in Tables(f) : Len(Table(f, t).id) # Len(Table(f, t).data)

C14_CrashStep ==
    /\ (last'.op = "crash" /\ last'.stmts = 1) => Mismatched(file')
    /\ (last'.op = "__init__" /\ ~last'.overwrite) =>
           /\ file' = file
           /\ Mismatched(file) => Mismatched(file')

\* C14: an add interrupted after it resized 'id' and before it resized
\* 'data' leaves a table with len(id) # len(data), and a construction with
\* overwrite=False leaves the file as it found it, mismatch included
C14_CrashLeavesMismatch == [][C14_CrashStep]_vars

\* a Results object was constructed with overwrite=False, without an error,
\* on a file an interrupted add left with len(id) # len(data)
C14_Witness ==
    /\ last.op = "__init__"
    /\ ~last.overwrite
    /\ last.status = "ok"
    /\ Mismatched(file)

C15_Step ==
    file' # file =>
        \A p \in Pipelines, ds \in QueryDatasets, s \in Subjects :
            (_already_computed(file, p, ds, s)
                 /\ ~ _already_computed(file', p, ds, s))
            => (last'.op = "__init__" /\ last'.overwrite /\ last'.status = "ok")

\* C15: a call that turns _already_computed(p, d, s) from true to false is a
\* construction with overwrite=True; add, the queries and a construction
\* with overwrite=False keep every true answer true
C15_ComputedStaysComputed == [][C15_Step]_vars

\* an add appended a second id to a table, after the add that gave the
\* table its first id, and _already_computed is true for the first
C15_Witness ==
    /\ SingleRecordAdded
    /\ \E t \in Tables(file), p \in Pipelines, ds \in QueryDatasets :
           /\ Len(Table(file, t).id) = 2
           /\ Table(file, t).id[1] # Table(file, t).id[2]
           /\ get_digest(p) = t[1]
           /\ ds.code = t[2]
           /\ Str(last.results[1].payload.items[1].id) = Table(file, t).id[2]
           /\ \E s \in Subjects :
                  /\ Str(s) = Table(file, t).id[1]
                  /\ _already_computed(file, p, ds, s)

\* the pairs <<i, j>> of the add call in last: record j of the payload of
\* pipeline name i
AddedRecords ==
    { ij \in (1..Len(last.results)) \X (1..MaxList) :
          ij[2] <= Len(last.results[ij[1]].payload.items) }

\* C16 as it is claimed: after add returned, _already_computed(p, r.dataset,
\* r.id) is true for every record r of every sequence given, whatever the
\* dataset of r
C16_EveryRecordComputedUnderItsDataset ==
    (last.op = "add" /\ last.status = "ok") =>
        \A ij \in AddedRecords :
            LET e == last.results[ij[1]]
                r == e.payload.items[ij[2]]
            IN  _already_computed(file, last.pipelines[e.name], r.dataset, r.id)

\* C16: after add returned, _already_computed(p, first.dataset, r.id) is
\* true for every record r of a sequence, first being the first record of
\* that sequence: the rows of a sequence all go to the table of the first
\* record's dataset
C16_EveryRecordComputedUnderFirstDataset ==
    (last.op = "add" /\ last.status = "ok") =>
        \A ij \in AddedRecords :
            LET e == last.results[ij[1]]
                r == e.payload.items[ij[2]]
            IN  _already_computed(file, last.pipelines[e.name],
                                  e.payload.items[1].dataset, r.id)

\* an add of a sequence whose second record names another dataset than the
\* first returned; the id of the second record is in the table of the
\* first record's dataset and not in one of its own dataset
C16_Witness ==
    /\ last.op = "add"
    /\ last.status = "ok"
    /\ Len(last.results) = 1
    /\ LET e  == last.results[1]
           rs == e.payload.items
           p  == last.pipelines[e.name]
       IN  /\ Len(rs) = 2
           /\ rs[1].dataset.code # rs[2].dataset.code
           /\ _already_computed(file, p, rs[1].dataset, rs[2].id)
           /\ ~ _already_computed(file, p, rs[2].dataset, rs[2].id)

\* the fields the loop body reads from a record
RowFields == {"id", "score", "time", "n_samples"}

\* the add call c has one pipeline name, and its pass raised in the loop
\* body, at record k, which lacks a field
FailedAtRecord(c, k) ==
    /\ c.op = "add"
    /\ c.status = "KeyError"
    /\ Len(c.results) = 1
    /\ c.results[1].payload.type \in {"dict", "list"}
    /\ k \in 1..Len(c.results[1].payload.items)
    /\ "dataset" \in DOMAIN c.results[1].payload.items[1]
    /\ "n_channels" \in DOMAIN c.results[1].payload.items[1]
    /\ ~ (RowFields \subseteq DOMAIN c.results[1].payload.items[k])
    /\ \A j \in 1..(k - 1) :
           RowFields \subseteq DOMAIN c.results[1].payload.items[j]

\* number of rows of the table t of the file f, 0 when it is not there
RowsOf(f, t) == IF t \in Tables(f) THEN Len(Table(f, t).id) ELSE 0

C17_FailStep ==
    \A k \in 1..MaxList :
        FailedAtRecord(last', k) =>
            LET e == last'.results[1]
                r == e.payload.items[k]
                p == last'.pipelines[e.name]
                t == <<EntryDigest(last', 1), EntryCode(last', 1)>>
            IN  /\ RowsOf(file', t) = RowsOf(file, t) + (k - 1)
                /\ "id" \in DOMAIN r =>
                       _already_computed(file', p, e.payload.items[1].dataset, r.id)
                         = _already_computed(file, p, e.payload.items[1].dataset, r.id)

\* C17 as it is claimed: an add that raises on a record that lacks a field
\* leaves the table with the rows it had and the rows of the records before
\* the failing one, and leaves _already_computed for the failing record's id
\* as it was
C17_FailedRecordLeavesNoRow == [][C17_FailStep]_vars

\* the add call c has one pipeline name, whose payload is the empty list
EmptyListAdded(c) ==
    /\ c.op = "add"
    /\ Len(c.results) = 1
    /\ c.results[1].payload.type = "list"
    /\ c.results[1].payload.items = <<>>

C18_EmptyStep ==
    EmptyListAdded(last') =>
        /\ last'.status = "ok"
        /\ DOMAIN file' = DOMAIN file
        /\ Tables(file') = Tables(file)
        /\ TotalRows(file') = TotalRows(file)

\* C18 as it is claimed: add({name: []}, pipelines) returns without an
\* error and the file has no pipeline group, no table and no row it did not
\* have before
C18_EmptyListIsNoOp == [][C18_EmptyStep]_vars

====
